---- MODULE Spec2Model ----
(***************************************************************************)
(* Model of the Drawing Page component, src/pages/index.tsx.               *)
(*                                                                         *)
(* The component owns two pieces of hook state (perspective and            *)
(* strokeHistory), a ref to a canvas element, six event handlers and one   *)
(* effect that replays the state onto the canvas.  The handlers and the    *)
(* effect are closures created by a render of the component: they read the *)
(* perspective and strokeHistory values of the render that created them    *)
(* (variable closure), while functional updates (setX(prev => ...)) read   *)
(* the latest hook state (variables perspective, strokeHistory).           *)
(*                                                                         *)
(* Scheduling.  Every handler is bound to one DOM event (change,           *)
(* mousedown, click) on its own element, so one event runs one handler.    *)
(* React flushes the updates made by a handler of such an event when the   *)
(* handler returns: the component is rendered again (new closures) and its *)
(* effect runs before the next event is delivered.  pc records the         *)
(* position in that cycle: "render" (an update is queued), "effect" (the   *)
(* render is committed, the effect has not run), "idle".                   *)
(***************************************************************************)
EXTENDS Integers, Sequences, FiniteSets

VARIABLES
    perspective,    \* useState<Perspective>: latest hook state, <<x, y>>
    strokeHistory,  \* useState<StrokeHistory>: latest hook state, sequence of <<x, y>>
    closure,        \* [perspective, strokeHistory] captured by the last render
    canvas,         \* what canvasRef.current / getContext("2d") give: "ok", "noctx", "none"
    surface,        \* the 2d context: [pixels: set of stroked segments, path: current path]
    pc,             \* "idle", "render", "effect"
    downloads,      \* number of link.click() calls made by handleSaveImage
    threw,          \* TRUE once a handler or the effect raised a TypeError
    lastOp,         \* history variable: the last operation, its inputs, the history before it
    tracking,       \* history variable: the history was empty at mount or after the last
                    \* Undo / Clear, and no Undo or Clear was invoked since
    calls,          \* history variable: while tracking, the points of the Add operations
                    \* invoked since the history was empty
    batch           \* history variable: number of handlers that ran since the last
                    \* render and whose updates are still queued

vars == <<perspective, strokeHistory, closure, canvas, surface, pc, downloads,
          threw, lastOp, tracking, calls, batch>>

progVars == <<perspective, strokeHistory, closure, canvas, surface, pc, downloads, threw>>

-----------------------------------------------------------------------------
(* Program constants *)

CANVAS_WIDTH == 800
CANVAS_HEIGHT == 600
SLIDER_MIN == -200
SLIDER_MAX == 200
FILE_NAME_RANGE == 1000

(* Bounds of the model *)

MaxHistory == 3          \* longest stroke history / longest run of Add calls explored
MaxDownloads == 1        \* number of exports explored
MaxBatch == 2            \* handlers explored within one batch of queued updates
RandomResolution == 1000 \* Math.random() is sampled as k / RandomResolution

(* Inputs *)

SliderNames == {"perspectiveX", "perspectiveY"}
SliderRequests == {-5, 10, 200, 250}            \* positions asked of a range input
RectOrigins == {[left |-> 10, top |-> 20]}      \* canvas.getBoundingClientRect()
ClientPositions == {<<60, 70>>, <<110, 140>>}   \* e.clientX, e.clientY
RandomSamples == {0, RandomResolution - 1}      \* numerators k of Math.random() = k / RandomResolution
RandomPairs == {<<0, 0>>, <<RandomResolution - 1, RandomResolution - 1>>}
CanvasStates == {"ok", "noctx", "none"}

-----------------------------------------------------------------------------
(* Strings: a string is a sequence of one-character strings. *)

Digits == <<"0", "1", "2", "3", "4", "5", "6", "7", "8", "9">>

DigitValue(c) == (CHOOSE i \in 1..10 : Digits[i] = c) - 1

RECURSIVE NatToString(_)
NatToString(n) ==
    IF n < 10 THEN <<Digits[n + 1]>>
    ELSE Append(NatToString(n \div 10), Digits[(n % 10) + 1])

\* String(n) for an integer n
String(n) == IF n < 0 THEN <<"-">> \o NatToString(0 - n) ELSE NatToString(n)

RECURSIVE StringToNat(_)
StringToNat(s) ==
    IF s = <<>> THEN 0
    ELSE 10 * StringToNat(SubSeq(s, 1, Len(s) - 1)) + DigitValue(s[Len(s)])

\* Number(value) for the decimal integer strings a range input produces
Number(s) == IF s # <<>> /\ s[1] = "-" THEN 0 - StringToNat(Tail(s)) ELSE StringToNat(s)

\* variant: a range input without min / max attributes
RangeInputUnbounded(req) == String(req)

\* <input type="range" min="-200" max="200">: the value the control reports
\* for a requested position is the position clamped to [min, max], as a string
RangeInputValue(req) ==
    String(IF req < SLIDER_MIN THEN SLIDER_MIN
             ELSE IF req > SLIDER_MAX THEN SLIDER_MAX ELSE req)

\* variant: Math.ceil instead of Math.floor
RandomBelowCeil(k, n) == (k * n + RandomResolution - 1) \div RandomResolution

\* Math.floor(Math.random() * n) with Math.random() = k / RandomResolution
RandomBelow(k, n) == (k * n) \div RandomResolution

-----------------------------------------------------------------------------
(* The 2d context.  The code uses one sub-path at a time: every moveTo     *)
(* follows a beginPath.  path is that sub-path, its last point is the pen. *)

\* the segments between consecutive points of a path (p is bound to the
\* value of path, so that path is evaluated once)
Segments(path) ==
    UNION { { <<p[i], p[i + 1]>> : i \in 1..(Len(p) - 1) } : p \in {path} }

BlankSurface == [pixels |-> {}, path |-> <<>>]

\* variant: the clear is left out
clearRectNothing(s) == s

clearRect(s) == [s EXCEPT !.pixels = {}]

beginPath(s) == [s EXCEPT !.path = <<>>]

moveTo(s, p) == [s EXCEPT !.path = <<p>>]

\* on an empty path lineTo only sets the pen (no segment)
lineTo(s, p) == [s EXCEPT !.path = Append(s.path, p)]

\* stroke() paints the whole current path
stroke(s) == [s EXCEPT !.pixels = s.pixels \cup Segments(s.path)]

\* variant: the path starts at the center, the offset is dropped
AnchorNoOffset(p) == <<CANVAS_WIDTH \div 2, CANVAS_HEIGHT \div 2>>

\* (CANVAS_WIDTH / 2 + perspective[0], CANVAS_HEIGHT / 2 + perspective[1])
Anchor(p) == <<CANVAS_WIDTH \div 2 + p[1], CANVAS_HEIGHT \div 2 + p[2]>>

\* history.forEach((stroke) => { context.lineTo(...); context.stroke(); })
RECURSIVE forEachStroke(_, _)
forEachStroke(s, history) ==
    IF history = <<>> THEN s
    ELSE forEachStroke(stroke(lineTo(s, Head(history))), Tail(history))

\* clearRect; beginPath; moveTo(center + perspective)
ResetToAnchor(s, p) == moveTo(beginPath(clearRect(s)), Anchor(p))

-----------------------------------------------------------------------------
(* References *)

\* variant: canvasRef.current! (asserted non-null)
canvasRefAsserted == "element"

canvasRefCurrent == IF canvas = "none" THEN "null" ELSE "element"

getContext2d == IF canvas = "ok" THEN "context" ELSE "null"

\* variant: the test is left out
NotNever(v) == FALSE

\* !v
Not(v) == v = "null"

\* an early return of a handler: nothing is updated, nothing is drawn
Return == UNCHANGED progVars

\* a method call on null raises a TypeError and abandons the handler
Throw == threw' = TRUE
         /\ UNCHANGED <<perspective, strokeHistory, closure, canvas, surface, pc, downloads>>

\* const canvas = canvasRef.current; if (!canvas) return;
\* const context = canvas.getContext("2d"); if (!context) return; body
WithContext(body) ==
    IF Not(canvasRefCurrent) THEN Return
    ELSE IF canvas = "none" THEN Throw      \* canvas.getContext of null
    ELSE IF Not(getContext2d) THEN Return
    ELSE IF canvas # "ok" THEN Throw        \* a drawing call on null
    ELSE body

(* Array helpers *)

\* variant: [[x, y], ...prev]
PrependStroke(prev, p) == <<p>> \o prev

\* [...prev, [x, y]]
AppendStroke(prev, p) == Append(prev, p)

\* variant: the copy is cut one element too short
popOffByOne(h) == SubSeq(h, 1, Len(h) - 2)

\* variant: a.shift() instead of a.pop()
shift(h) == IF h = <<>> THEN <<>> ELSE Tail(h)

\* const a = [...h]; a.pop(); a
pop(h) == IF h = <<>> THEN <<>> ELSE SubSeq(h, 1, Len(h) - 1)

\* variant: name === "perspectiveX" ? 1 : 0
IndexOfSwapped(name) == IF name = "perspectiveX" THEN 2 ELSE 1

\* index = name === "perspectiveX" ? 0 : 1   (1-based here)
IndexOf(name) == IF name = "perspectiveX" THEN 1 ELSE 2

-----------------------------------------------------------------------------
Init ==
    /\ perspective = <<0, 0>>
    /\ strokeHistory = <<>>
    /\ closure = [perspective |-> <<0, 0>>, strokeHistory |-> <<>>]
    /\ canvas \in CanvasStates
    /\ surface = BlankSurface
    /\ pc = "effect"
    /\ downloads = 0
    /\ threw = FALSE
    /\ lastOp = [op |-> "mount", arg |-> <<>>, before |-> <<>>]
    /\ tracking = TRUE
    /\ calls = <<>>
    /\ batch = 0

-----------------------------------------------------------------------------
(* Event handlers.  A handler that calls a state setter leaves pc at       *)
(* "render": the update is queued and the component renders again.         *)

\* e.target = [name, value]; setPerspective(prev => ...) reads the latest state
handlePerspectiveChange(target) ==
    /\ perspective' = [perspective EXCEPT ![IndexOf(target.name)] = Number(target.value)]
    /\ pc' = "render"
    /\ UNCHANGED <<strokeHistory, closure, canvas, surface, downloads, threw>>

\* variant: lineTo without the stroke() that paints it
handleMouseDownNoStroke(clientX, clientY, rect) ==
    WithContext(
         LET x == clientX - rect.left
             y == clientY - rect.top
         IN /\ surface' = lineTo(surface, <<x, y>>)
            /\ strokeHistory' = AppendStroke(strokeHistory, <<x, y>>)
            /\ pc' = "render"
            /\ UNCHANGED <<perspective, closure, canvas, downloads, threw>>)

handleMouseDown(clientX, clientY, rect) ==
    WithContext(
         LET x == clientX - rect.left
             y == clientY - rect.top
         IN /\ surface' = stroke(lineTo(surface, <<x, y>>))
            /\ strokeHistory' = AppendStroke(strokeHistory, <<x, y>>)
            /\ pc' = "render"
            /\ UNCHANGED <<perspective, closure, canvas, downloads, threw>>)

\* variant: Clear also resets the offset
handleClearCanvasResetsOffset ==
    WithContext(
         /\ surface' = ResetToAnchor(surface, closure.perspective)
         /\ strokeHistory' = <<>>
         /\ perspective' = <<0, 0>>
         /\ pc' = "render"
         /\ UNCHANGED <<closure, canvas, downloads, threw>>)

\* variant: beginPath and moveTo without the clearRect
handleClearCanvasNoClearRect ==
    WithContext(
         /\ surface' = moveTo(beginPath(surface), Anchor(closure.perspective))
         /\ strokeHistory' = <<>>
         /\ pc' = "render"
         /\ UNCHANGED <<perspective, closure, canvas, downloads, threw>>)

\* variant: the surface is reset but setStrokeHistory([]) is left out
handleClearCanvasKeepsHistory ==
    WithContext(
         /\ surface' = ResetToAnchor(surface, closure.perspective)
         /\ UNCHANGED <<perspective, strokeHistory, closure, canvas, pc, downloads, threw>>)

\* reads perspective of the render that created the handler
handleClearCanvas ==
    WithContext(
         /\ surface' = ResetToAnchor(surface, closure.perspective)
         /\ strokeHistory' = <<>>
         /\ pc' = "render"
         /\ UNCHANGED <<perspective, closure, canvas, downloads, threw>>)

\* variant: the replay runs over strokeHistory instead of newStrokeHistory
handleUndoStrokeDrawsOld ==
    WithContext(
         LET newStrokeHistory == pop(closure.strokeHistory)
         IN /\ surface' = forEachStroke(ResetToAnchor(surface, closure.perspective),
                                        closure.strokeHistory)
            /\ strokeHistory' = newStrokeHistory
            /\ pc' = "render"
            /\ UNCHANGED <<perspective, closure, canvas, downloads, threw>>)

\* reads perspective and strokeHistory of the render that created the handler
handleUndoStroke ==
    WithContext(
         LET newStrokeHistory == pop(closure.strokeHistory)
         IN /\ surface' = forEachStroke(ResetToAnchor(surface, closure.perspective),
                                        newStrokeHistory)
            /\ strokeHistory' = newStrokeHistory
            /\ pc' = "render"
            /\ UNCHANGED <<perspective, closure, canvas, downloads, threw>>)

\* variant: the export resizes the canvas first, which resets its bitmap and path
handleSaveImageResets ==
    IF Not(canvasRefCurrent) THEN Return
    ELSE IF canvas = "none" THEN Throw
    ELSE /\ downloads' = downloads + 1
         /\ surface' = BlankSurface
         /\ UNCHANGED <<perspective, strokeHistory, closure, canvas, pc, threw>>

\* the file name and the data URL go to the download; only the canvas is
\* tested, toDataURL needs no 2d context
handleSaveImage ==
    IF Not(canvasRefCurrent) THEN Return
    ELSE IF canvas = "none" THEN Throw      \* canvas.toDataURL of null
    ELSE /\ downloads' = downloads + 1
         /\ UNCHANGED <<perspective, strokeHistory, closure, canvas, surface, pc, threw>>

\* kx, ky: the two Math.random() samples
handleDrawRandomly(kx, ky) ==
    WithContext(
         LET x == RandomBelow(kx, CANVAS_WIDTH)
             y == RandomBelow(ky, CANVAS_HEIGHT)
         IN /\ surface' = stroke(lineTo(surface, <<x, y>>))
            /\ strokeHistory' = AppendStroke(strokeHistory, <<x, y>>)
            /\ pc' = "render"
            /\ UNCHANGED <<perspective, closure, canvas, downloads, threw>>)

\* variant: the effect returns early when there is nothing to replay
renderEffectBodySkipsEmpty ==
    IF Not(canvasRefCurrent) THEN UNCHANGED <<surface, threw>>
    ELSE IF canvas = "none" THEN threw' = TRUE /\ UNCHANGED surface
    ELSE IF Not(getContext2d) THEN UNCHANGED <<surface, threw>>
    ELSE IF canvas # "ok" THEN threw' = TRUE /\ UNCHANGED surface
    ELSE IF closure.strokeHistory = <<>> THEN UNCHANGED <<surface, threw>>
    ELSE /\ surface' = forEachStroke(ResetToAnchor(surface, closure.perspective),
                                     closure.strokeHistory)
         /\ UNCHANGED threw

\* the body of useEffect(..., [perspective, strokeHistory])
renderEffectBody ==
    IF Not(canvasRefCurrent) THEN UNCHANGED <<surface, threw>>
    ELSE IF canvas = "none" THEN threw' = TRUE /\ UNCHANGED surface
    ELSE IF Not(getContext2d) THEN UNCHANGED <<surface, threw>>
    ELSE IF canvas # "ok" THEN threw' = TRUE /\ UNCHANGED surface
    ELSE /\ surface' = forEachStroke(ResetToAnchor(surface, closure.perspective),
                                     closure.strokeHistory)
         /\ UNCHANGED threw

-----------------------------------------------------------------------------
(* Steps: an event delivered to the page, or a step of React.  They add    *)
(* the scheduling guard and the history variables to the handler.          *)

Logged(op, arg) ==
    /\ lastOp' = [op |-> op, arg |-> arg, before |-> strokeHistory]
    /\ batch' = IF pc' = "render" THEN batch + 1 ELSE 0

SliderChange(name, req) ==
    /\ pc = "idle"
    /\ handlePerspectiveChange([name |-> name, value |-> RangeInputValue(req)])
    /\ Logged("handlePerspectiveChange", <<IF name = "perspectiveX" THEN 0 ELSE 1, req>>)
    /\ UNCHANGED <<tracking, calls>>

MouseDown(pos, rect) ==
    /\ pc = "idle"
    /\ Len(strokeHistory) < MaxHistory
    /\ Len(calls) < MaxHistory
    /\ handleMouseDown(pos[1], pos[2], rect)
    /\ Logged("handleMouseDown", <<pos[1] - rect.left, pos[2] - rect.top>>)
    /\ calls' = IF tracking THEN Append(calls, <<pos[1] - rect.left, pos[2] - rect.top>>)
                 ELSE calls
    /\ UNCHANGED tracking

ClickRandom(kx, ky) ==
    /\ pc = "idle"
    /\ Len(strokeHistory) < MaxHistory
    /\ Len(calls) < MaxHistory
    /\ handleDrawRandomly(kx, ky)
    /\ Logged("handleDrawRandomly", <<RandomBelow(kx, CANVAS_WIDTH), RandomBelow(ky, CANVAS_HEIGHT)>>)
    /\ calls' = IF tracking
                 THEN Append(calls, <<RandomBelow(kx, CANVAS_WIDTH), RandomBelow(ky, CANVAS_HEIGHT)>>)
                 ELSE calls
    /\ UNCHANGED tracking

ClickUndo ==
    /\ pc = "idle"
    /\ handleUndoStroke
    /\ Logged("handleUndoStroke", <<>>)
    /\ tracking' = (strokeHistory' = <<>>)
    /\ calls' = <<>>

ClickClear ==
    /\ pc = "idle"
    /\ handleClearCanvas
    /\ Logged("handleClearCanvas", <<>>)
    /\ tracking' = (strokeHistory' = <<>>)
    /\ calls' = <<>>

\* k: the Math.random() sample of the file name
ClickSave(k) ==
    /\ pc = "idle"
    /\ downloads < MaxDownloads
    /\ handleSaveImage
    /\ Logged("handleSaveImage", <<RandomBelow(k, FILE_NAME_RANGE)>>)
    /\ UNCHANGED <<tracking, calls>>

\* variant: the effect's dependency list is [strokeHistory] only, so a render
\* that follows a change of perspective alone schedules no effect
RenderHistoryDepsOnly ==
    /\ pc = "render"
    /\ closure' = [perspective |-> perspective, strokeHistory |-> strokeHistory]
    /\ pc' = IF closure.strokeHistory = strokeHistory /\ closure.perspective # perspective
             THEN "idle" ELSE "effect"
    /\ Logged("render", <<>>)
    /\ UNCHANGED <<perspective, strokeHistory, canvas, surface, downloads, threw, tracking, calls>>

\* React renders Home again: new closures over the latest state; both
\* setters always store a new array, so the effect's dependencies changed
Render ==
    /\ pc = "render"
    /\ closure' = [perspective |-> perspective, strokeHistory |-> strokeHistory]
    /\ pc' = "effect"
    /\ Logged("render", <<>>)
    /\ UNCHANGED <<perspective, strokeHistory, canvas, surface, downloads, threw, tracking, calls>>

\* React runs the effect of the committed render
renderEffect ==
    /\ pc = "effect"
    /\ renderEffectBody
    /\ pc' = "idle"
    /\ Logged("effect", <<>>)
    /\ UNCHANGED <<perspective, strokeHistory, closure, canvas, downloads, tracking, calls>>

Next ==
    \/ \E name \in SliderNames, req \in SliderRequests : SliderChange(name, req)
    \/ \E pos \in ClientPositions, rect \in RectOrigins : MouseDown(pos, rect)
    \/ \E k \in RandomPairs : ClickRandom(k[1], k[2])
    \/ ClickUndo
    \/ ClickClear
    \/ \E k \in RandomSamples : ClickSave(k)
    \/ Render
    \/ renderEffect

Spec == Init /\ [][Next]_vars

\* The same steps over fewer input values, for the properties of the
\* scheduling that are checked under fairness
FairSliderRequests == {-5, 10}
FairClientPositions == {<<110, 140>>}
FairRandomPairs == {<<0, 0>>}
FairRandomSamples == {0}

NextFair ==
    \/ \E name \in SliderNames, req \in FairSliderRequests : SliderChange(name, req)
    \/ \E pos \in FairClientPositions, rect \in RectOrigins : MouseDown(pos, rect)
    \/ \E k \in FairRandomPairs : ClickRandom(k[1], k[2])
    \/ ClickUndo
    \/ ClickClear
    \/ \E k \in FairRandomSamples : ClickSave(k)
    \/ Render
    \/ renderEffect

\* React always performs a render it has scheduled and always runs the
\* effect of a render it has committed
FairSpec == Init /\ [][NextFair]_vars /\ WF_vars(Render) /\ WF_vars(renderEffect)

-----------------------------------------------------------------------------
(* Batched handlers.  When several handlers are invoked inside one React   *)
(* batch (no render between them), the later ones are still the closures   *)
(* of the last render: they read closure, while the functional updates     *)
(* read the queued state.                                                  *)

BatchedMouseDown(pos, rect) ==
    /\ pc = "render"
    /\ batch < MaxBatch
    /\ Len(strokeHistory) < MaxHistory
    /\ Len(calls) < MaxHistory
    /\ handleMouseDown(pos[1], pos[2], rect)
    /\ Logged("handleMouseDown", <<pos[1] - rect.left, pos[2] - rect.top>>)
    /\ calls' = IF tracking THEN Append(calls, <<pos[1] - rect.left, pos[2] - rect.top>>)
                 ELSE calls
    /\ UNCHANGED tracking

BatchedRandom(kx, ky) ==
    /\ pc = "render"
    /\ batch < MaxBatch
    /\ Len(strokeHistory) < MaxHistory
    /\ Len(calls) < MaxHistory
    /\ handleDrawRandomly(kx, ky)
    /\ Logged("handleDrawRandomly", <<RandomBelow(kx, CANVAS_WIDTH), RandomBelow(ky, CANVAS_HEIGHT)>>)
    /\ calls' = IF tracking
                 THEN Append(calls, <<RandomBelow(kx, CANVAS_WIDTH), RandomBelow(ky, CANVAS_HEIGHT)>>)
                 ELSE calls
    /\ UNCHANGED tracking

BatchedUndo ==
    /\ pc = "render"
    /\ batch < MaxBatch
    /\ handleUndoStroke
    /\ Logged("handleUndoStroke", <<>>)
    /\ tracking' = (strokeHistory' = <<>>)
    /\ calls' = <<>>

BatchedClear ==
    /\ pc = "render"
    /\ batch < MaxBatch
    /\ handleClearCanvas
    /\ Logged("handleClearCanvas", <<>>)
    /\ tracking' = (strokeHistory' = <<>>)
    /\ calls' = <<>>

NextBatched ==
    \/ NextFair
    \/ \E pos \in FairClientPositions, rect \in RectOrigins : BatchedMouseDown(pos, rect)
    \/ \E k \in FairRandomPairs : BatchedRandom(k[1], k[2])
    \/ BatchedUndo
    \/ BatchedClear

SpecBatched == Init /\ [][NextBatched]_vars

-----------------------------------------------------------------------------
(* Properties *)

Clamped(req) == IF req > 200 THEN 200 ELSE IF req < -200 THEN -200 ELSE req

\* the path and the painted segments of: pen at center + off, then a
\* segment to each point of h in order
ExpectedPath(off, h) == <<<<400 + off[1], 300 + off[2]>>>> \o h

Shows(off, h) ==
    /\ surface.path = ExpectedPath(off, h)
    /\ surface.pixels = { <<ExpectedPath(off, h)[i], ExpectedPath(off, h)[i + 1]>> :
                            i \in 1..Len(h) }

AddOps == {"handleMouseDown", "handleDrawRandomly"}

\* C1 as stated: after N Add-Point operations (pointer press or random)
\* invoked from an empty Stroke History with no Undo or Clear in between,
\* the history is exactly the N points in the order of the invocations.
C1_AddSequenceAnySurface ==
    tracking => strokeHistory = calls

\* C1 amended: the same, while the surface and its rendering context are
\* available (without them Add Point returns early and appends nothing).
C1_AddSequence ==
    (tracking /\ canvas = "ok") =>
        /\ Len(strokeHistory) = Len(calls)
        /\ \A i \in 1..Len(calls) : strokeHistory[i] = calls[i]

C1_Witness ==
    /\ canvas = "ok"
    /\ tracking
    /\ lastOp.op = "handleDrawRandomly"
    /\ calls = <<<<50, 50>>, <<799, 599>>>>
    /\ strokeHistory = calls

\* C2: Undo on a history of length N >= 1 yields length N - 1: the
\* previous history without its last point, the others kept in order.
C2_UndoRemovesLast ==
    (lastOp.op = "handleUndoStroke" /\ Len(lastOp.before) >= 1) =>
        /\ Len(strokeHistory) = Len(lastOp.before) - 1
        /\ \A i \in 1..Len(strokeHistory) : strokeHistory[i] = lastOp.before[i]

C2_Witness ==
    /\ lastOp.op = "handleUndoStroke"
    /\ lastOp.before = <<<<50, 50>>, <<100, 120>>>>
    /\ strokeHistory = <<<<50, 50>>>>

\* C3: Undo on an empty history leaves the history empty and Offset
\* unchanged, and raises no error.
C3_UndoOnEmpty ==
    [][(lastOp'.op = "handleUndoStroke" /\ strokeHistory = <<>>) =>
          /\ strokeHistory' = <<>>
          /\ perspective' = perspective
          /\ threw' = FALSE]_vars

C3_Witness ==
    /\ lastOp.op = "handleUndoStroke"
    /\ lastOp.before = <<>>
    /\ canvas = "ok"
    /\ perspective = <<10, -5>>
    /\ strokeHistory = <<>>

\* C4: Clear always yields an empty history, whatever the history, the
\* offset and the surface availability were, and leaves Offset unchanged.
C4_ClearEmpties ==
    [][lastOp'.op = "handleClearCanvas" =>
          /\ strokeHistory' = <<>>
          /\ perspective' = perspective]_vars

C4_Witness ==
    /\ lastOp.op = "handleClearCanvas"
    /\ Len(lastOp.before) >= 2
    /\ perspective = <<200, -5>>
    /\ strokeHistory = <<>>

\* C5: Set-Offset-Axis(axis, v) replaces only the selected component of
\* Offset with v; the other component and Stroke History are unchanged.
C5_SetOffsetAxis ==
    [][lastOp'.op = "handlePerspectiveChange" =>
          /\ perspective'[lastOp'.arg[1] + 1] = Clamped(lastOp'.arg[2])
          /\ perspective'[2 - lastOp'.arg[1]] = perspective[2 - lastOp'.arg[1]]
          /\ strokeHistory' = strokeHistory]_vars

C5_Witness ==
    /\ lastOp.op = "handlePerspectiveChange"
    /\ lastOp.arg = <<1, -5>>
    /\ perspective = <<10, -5>>
    /\ strokeHistory # <<>>

\* C6: both components of Offset are integers in [-200, 200] in every
\* reachable state; a slider request inside the range (such as 200) is
\* stored as it is, a request for 250 is never stored as more than 200.
C6_OffsetInRange ==
    /\ perspective[1] \in -200..200
    /\ perspective[2] \in -200..200
    /\ (lastOp.op = "handlePerspectiveChange" /\ lastOp.arg[2] \in -200..200) =>
           perspective[lastOp.arg[1] + 1] = lastOp.arg[2]

C6_Witness ==
    /\ lastOp.op = "handlePerspectiveChange"
    /\ lastOp.arg = <<0, 250>>
    /\ perspective = <<200, 10>>

\* C7: after a render pass the surface holds exactly: pen moved to
\* (width/2 + offset.x, height/2 + offset.y), then one segment to each
\* history point in insertion order, whatever was on the surface before
\* and however the state was reached.
C7_RenderIsFunctionOfState ==
    (lastOp.op = "effect" /\ canvas = "ok") => Shows(perspective, strokeHistory)

C7_Witness ==
    /\ lastOp.op = "effect"
    /\ canvas = "ok"
    /\ perspective = <<10, -5>>
    /\ strokeHistory = <<<<50, 50>>, <<100, 120>>>>
    /\ surface.path = <<<<410, 295>>, <<50, 50>>, <<100, 120>>>>
    /\ surface.pixels = {<<<<410, 295>>, <<50, 50>>>>, <<<<50, 50>>, <<100, 120>>>>}

C9_ExportIsPure ==
    [][lastOp'.op = "handleSaveImage" =>
          /\ perspective' = perspective
          /\ strokeHistory' = strokeHistory
          /\ surface' = surface]_vars

C9_Witness ==
    /\ lastOp.op = "handleSaveImage"
    /\ canvas = "ok"
    /\ downloads = 1
    /\ perspective = <<10, -5>>
    /\ strokeHistory = <<<<50, 50>>, <<100, 120>>>>

\* C10 as stated: with the surface reference or its rendering context
\* missing every operation is a no-op: Offset, Stroke History and the
\* surface are unchanged, no export is triggered, no error is raised.
C10_AllNoOps ==
    [][canvas # "ok" =>
          /\ perspective' = perspective
          /\ strokeHistory' = strokeHistory
          /\ surface' = surface
          /\ downloads' = downloads
          /\ threw' = FALSE]_vars

\* C10 amended: with the surface reference or its rendering context
\* missing, Add Point, Add Random Point, Undo, Clear and the render effect
\* are no-ops, and no operation changes Stroke History or the surface or
\* raises an error; Set Offset Axis has no guard and still stores its value;
\* Export tests the surface reference only: it triggers no export when the
\* reference is missing and still triggers one when only the context is.
C10_GuardedNoOps ==
    [][canvas # "ok" =>
          /\ strokeHistory' = strokeHistory
          /\ surface' = surface
          /\ threw' = FALSE
          /\ lastOp'.op # "handlePerspectiveChange" => perspective' = perspective
          /\ (lastOp'.op # "handleSaveImage" \/ canvas = "none") => downloads' = downloads
          /\ lastOp'.op = "handlePerspectiveChange" =>
                 perspective'[lastOp'.arg[1] + 1] = Clamped(lastOp'.arg[2])
          /\ (lastOp'.op = "handleSaveImage" /\ canvas = "noctx") =>
                 downloads' = downloads + 1]_vars

C10_Witness ==
    /\ canvas = "noctx"
    /\ lastOp.op = "handleDrawRandomly"
    /\ lastOp.arg = <<799, 599>>
    /\ perspective = <<10, -5>>
    /\ strokeHistory = <<>>
    /\ surface = BlankSurface
    /\ downloads = 1

\* C11: the redraw Undo performs inside its handler leaves the surface
\* with exactly what the render effect produces for the post-undo state
\* (current Offset, history minus its last point).
C11_UndoRedrawIsRender ==
    (lastOp.op = "handleUndoStroke" /\ canvas = "ok") =>
        /\ strokeHistory = SubSeq(lastOp.before, 1, Len(lastOp.before) - 1)
        /\ surface = forEachStroke(ResetToAnchor(surface, perspective), strokeHistory)
        /\ Shows(perspective, strokeHistory)

C11_Witness ==
    /\ lastOp.op = "handleUndoStroke"
    /\ canvas = "ok"
    /\ perspective = <<10, -5>>
    /\ lastOp.before = <<<<50, 50>>, <<100, 120>>, <<799, 599>>>>
    /\ surface.path = <<<<410, 295>>, <<50, 50>>, <<100, 120>>>>

\* C12: Add Point (pointer press or random) draws one segment from the
\* current pen position to the new point and appends the point to the
\* history; the surface right after the handler already equals what the
\* following render pass produces for the new state.
C12_AddDrawsLikeRender ==
    [][(lastOp'.op \in AddOps /\ canvas = "ok") =>
          /\ strokeHistory' = Append(strokeHistory, lastOp'.arg)
          /\ surface.path # <<>>
          /\ surface'.path = Append(surface.path, lastOp'.arg)
          /\ surface'.pixels =
                 surface.pixels \cup {<<surface.path[Len(surface.path)], lastOp'.arg>>}
          /\ surface' = forEachStroke(ResetToAnchor(surface', perspective'), strokeHistory')]_vars

C12_Witness ==
    /\ lastOp.op = "handleMouseDown"
    /\ lastOp.arg = <<100, 120>>
    /\ canvas = "ok"
    /\ pc = "render"
    /\ perspective = <<10, -5>>
    /\ strokeHistory = <<<<799, 599>>, <<100, 120>>>>
    /\ surface.pixels = {<<<<410, 295>>, <<799, 599>>>>, <<<<799, 599>>, <<100, 120>>>>}

\* C13: after Clear the surface shows no segments and the pen is at the
\* anchor (canvas center + current Offset), right after the handler and
\* still after the render pass that follows.
C13_ClearShowsAnchorOnly ==
    /\ [](lastOp.op = "handleClearCanvas" /\ canvas = "ok" =>
              /\ surface.pixels = {}
              /\ surface.path = <<<<400 + perspective[1], 300 + perspective[2]>>>>)
    /\ [][(/\ canvas = "ok"
           /\ pc # "idle"
           /\ strokeHistory = <<>>
           /\ surface.pixels = {}
           /\ surface.path = <<<<400 + perspective[1], 300 + perspective[2]>>>>) =>
              /\ surface'.pixels = {}
              /\ surface'.path = <<<<400 + perspective'[1], 300 + perspective'[2]>>>>]_vars

C13_Witness ==
    /\ lastOp.op = "handleClearCanvas"
    /\ canvas = "ok"
    /\ Len(lastOp.before) = 2
    /\ perspective = <<10, -5>>
    /\ surface.pixels = {}
    /\ surface.path = <<<<410, 295>>>>

\* C14: every point appended by Add Random Point has integer coordinates
\* with 0 <= x < 800 and 0 <= y < 600.
C14_RandomPointInCanvas ==
    [][(lastOp'.op = "handleDrawRandomly" /\ canvas = "ok") =>
          /\ Len(strokeHistory') = Len(strokeHistory) + 1
          /\ strokeHistory'[Len(strokeHistory')][1] \in 0..799
          /\ strokeHistory'[Len(strokeHistory')][2] \in 0..599]_vars

C14_Witness ==
    /\ lastOp.op = "handleDrawRandomly"
    /\ canvas = "ok"
    /\ strokeHistory = <<<<0, 0>>, <<799, 599>>>>

\* C16: Stroke History is append-only except for undo and clear: in every
\* step the new history is the old one, the old one with one point
\* appended, the old one without its last element, or empty.
C16_AppendOnly ==
    [][\/ strokeHistory' = strokeHistory
       \/ /\ Len(strokeHistory') = Len(strokeHistory) + 1
          /\ \A i \in 1..Len(strokeHistory) : strokeHistory'[i] = strokeHistory[i]
       \/ /\ Len(strokeHistory') = Len(strokeHistory) - 1
          /\ \A i \in 1..Len(strokeHistory') : strokeHistory'[i] = strokeHistory[i]
       \/ strokeHistory' = <<>>]_vars

C16_Witness ==
    /\ lastOp.op = "handleUndoStroke"
    /\ lastOp.before = <<<<799, 599>>, <<50, 50>>, <<0, 0>>>>
    /\ strokeHistory = <<<<799, 599>>, <<50, 50>>>>

\* C17: Offset is mutated only by the two slider controls: Add Point, Add
\* Random Point, Undo, Clear, Export and the render effect leave both of
\* its components unchanged.
C17_OffsetOnlyBySliders ==
    [][lastOp'.op # "handlePerspectiveChange" =>
          /\ perspective'[1] = perspective[1]
          /\ perspective'[2] = perspective[2]]_vars

C17_Witness ==
    /\ lastOp.op = "handleClearCanvas"
    /\ canvas = "ok"
    /\ lastOp.before # <<>>
    /\ perspective = <<-5, 200>>

\* C19: whenever a handler starts with the surface available, the pen is
\* at the last point of Stroke History, or at the anchor (canvas center +
\* Offset) when the history is empty; so the segment an Add Point handler
\* draws is the segment the full replay draws for that point.
C19_PenAtLastPoint ==
    /\ []((pc = "idle" /\ canvas = "ok") =>
              /\ surface.path # <<>>
              /\ surface.path[Len(surface.path)] =
                     IF strokeHistory = <<>>
                     THEN <<400 + perspective[1], 300 + perspective[2]>>
                     ELSE strokeHistory[Len(strokeHistory)])
    /\ [][(lastOp'.op \in AddOps /\ canvas = "ok") =>
             /\ surface.path # <<>>
             /\ <<surface.path[Len(surface.path)], lastOp'.arg>> =
                    <<ExpectedPath(perspective', strokeHistory')[Len(strokeHistory')],
                      ExpectedPath(perspective', strokeHistory')[Len(strokeHistory') + 1]>>
             /\ <<surface.path[Len(surface.path)], lastOp'.arg>> \in surface'.pixels]_vars

C19_Witness ==
    /\ pc = "idle"
    /\ canvas = "ok"
    /\ lastOp.op = "effect"
    /\ perspective = <<200, 10>>
    /\ strokeHistory = <<<<100, 120>>, <<0, 0>>>>
    /\ surface.path[Len(surface.path)] = <<0, 0>>

HandlerOps == {"handlePerspectiveChange", "handleMouseDown", "handleDrawRandomly",
               "handleUndoStroke", "handleClearCanvas", "handleSaveImage"}

\* C15: every change of Offset or Stroke History is eventually followed by
\* a render pass; the pass runs only after the handler that made the change
\* has completed, one pass per handler; after the pass the surface reflects
\* the current (Offset, Stroke History).
C15_RenderFollowsChange ==
    /\ [][(perspective' # perspective \/ strokeHistory' # strokeHistory) =>
              (lastOp'.op \in HandlerOps /\ pc' = "render")]_vars
    /\ (pc = "render") ~>
           (/\ pc = "idle"
            /\ lastOp.op = "effect"
            /\ canvas = "ok" => Shows(perspective, strokeHistory))
    /\ [][lastOp'.op = "render" => (lastOp.op \in HandlerOps /\ pc = "render")]_vars
    /\ [][lastOp'.op = "effect" => (lastOp.op \in {"render", "mount"} /\ pc' = "idle")]_vars

C15_Witness ==
    /\ pc = "idle"
    /\ lastOp.op = "effect"
    /\ canvas = "ok"
    /\ perspective = <<-5, -5>>
    /\ strokeHistory = <<<<0, 0>>, <<100, 120>>, <<0, 0>>>>
    /\ Shows(perspective, strokeHistory)

====
